---- MODULE Spec2Model ----
(***************************************************************************)
(* Model of weirdc/ast.py: the lookahead token cursor                      *)
(* (_HandyDandyTokenIterator), the recursive-descent parser (_Parser) and  *)
(* the lazy top-level driver (parse_file / parse).                         *)
(*                                                                         *)
(* The specifications share the cursor variables:                          *)
(*   SpecCursor  a client calls pop / coming_up / something_coming_up /    *)
(*               check_and_pop on one cursor in any order;                 *)
(*   Spec        the caller of parse(tokens) drives the generator          *)
(*               returned by parse_file one resumption at a time;          *)
(*   FairSpec    Spec, with a caller that keeps asking for the next node.  *)
(***************************************************************************)
EXTENDS Integers, Sequences, FiniteSets, TLC

VARIABLES
    tokens,            \* the iterable handed to __init__ / parse()
    iterator,          \* self._iterator: the tokens not yet fetched
    coming_up_stack,   \* self._coming_up_stack: deque, index 1 = left end
    calls,             \* call trace of parse_statement and the parser it runs
    yielded,           \* nodes the caller of parse_file has received
    status,            \* generator: "suspended", "exhausted" or "raised"
    error,             \* the exception that left the generator
    popped,            \* SpecCursor: tokens returned by successful pops
    last,              \* SpecCursor: the last cursor call and its outcome
    usage              \* how the cursor was used so far: see NoUsage

vars == <<tokens, iterator, coming_up_stack, calls, yielded, status, error,
          popped, last, usage>>

----------------------------------------------------------------------------
(* Bounds *)

\* length up to which every token sequence is handed to parse()
MaxLen == 5
\* longest token sequence handed to a bare cursor
CursorMaxLen == 3
\* deepest lookahead a cursor client asks for
MaxPeek == 2

----------------------------------------------------------------------------
(* Tokens: kind, value (raw text), start, end.  The i-th token of a source *)
(* spans the positions 2i-1 .. 2i.                                         *)

Token(kind, value, i) ==
    [kind |-> kind, value |-> value, start |-> 2 * i - 1, end |-> 2 * i]

NAMES == {"return", "if", "function", "returns", "a"}
OPS == {";", "=", "(", ")", "{", "}", ","}

Vocab ==
    {<<"NAME", v>> : v \in NAMES}
        \cup {<<"INTEGER", "1">>, <<"STRING", "\"x\"">>}
        \cup {<<"OP", v>> : v \in OPS}

CursorVocab == {<<"NAME", "a">>, <<"NAME", "if">>, <<"OP", ";">>}

\* the producer's output for the lexemes lx (a sequence of <<kind, value>>)
tokenize(lx) == [i \in 1..Len(lx) |-> Token(lx[i][1], lx[i][2], i)]

----------------------------------------------------------------------------
(* Python values and outcomes *)

None == [tag |-> "None"]

NoExc == [type |-> "None", line |-> 0]

\* a call that returns val, leaving the parser/cursor state p
Return(p, val) == [p |-> p, exc |-> NoExc, val |-> val]

\* a call that raises the exception `type' at source line `line'
Raise(p, type, line) ==
    [p |-> p, exc |-> [type |-> type, line |-> line], val |-> None]

Raised(r) == r.exc.type # "None"

\* r, then K on its outcome: an exception raised by r propagates.  (r is
\* bound to v so that it is evaluated once.)
Then(r, K(_)) ==
    CHOOSE outcome \in {IF Raised(v) THEN v ELSE K(v) : v \in {r}} : TRUE

----------------------------------------------------------------------------
(* _HandyDandyTokenIterator.  p is a record with (at least) the fields     *)
(* iterator, coming_up_stack and usage.                                    *)

\* the record of a cursor's use, on a cursor not used yet:
\*   high      the most tokens the deque has held
\*   unpeeked  some pop() found the deque empty and went to the producer
\*   loops     the loop iterations the parser began, with the number of
\*             unconsumed tokens at that time
NoUsage == [high |-> 0, unpeeked |-> FALSE, loops |-> <<>>]

\* self._coming_up_stack.appendleft(next(self._iterator))
appendleft_next(p) ==
    [p EXCEPT !.coming_up_stack = <<Head(p.iterator)>> \o @,
              !.iterator = Tail(@),
              !.usage.high = IF @ > Len(p.coming_up_stack) THEN @
                             ELSE Len(p.coming_up_stack) + 1]

\* next(self._iterator) when there is a token: the pop() of an empty deque
next_iterator(p) ==
    Return([p EXCEPT !.iterator = Tail(@), !.usage.unpeeked = TRUE],
           Head(p.iterator))

\* deque.pop() takes the right end, deque.appendleft() adds at the left end
pop_popleft(p) ==
    IF p.coming_up_stack # <<>>
    THEN Return([p EXCEPT !.coming_up_stack = Tail(@)],
                Head(p.coming_up_stack))
    ELSE IF p.iterator = <<>>
         THEN Raise([p EXCEPT !.usage.unpeeked = TRUE], "StopIteration", 16)
         ELSE next_iterator(p)

pop(p) ==
    IF p.coming_up_stack # <<>>
    THEN Return([p EXCEPT !.coming_up_stack = SubSeq(@, 1, Len(@) - 1)],
                p.coming_up_stack[Len(p.coming_up_stack)])
    ELSE IF p.iterator = <<>>
         THEN Raise([p EXCEPT !.usage.unpeeked = TRUE], "StopIteration", 16)
         ELSE next_iterator(p)

RECURSIVE coming_up(_, _)

\* coming_up indexing the deque from its left end: stack[n - 1]
coming_up_from_left(p, n) ==
    IF Len(p.coming_up_stack) < n
    THEN IF p.iterator = <<>>
         THEN Raise(p, "EOFError", 23)
         ELSE coming_up(appendleft_next(p), n)
    ELSE Return(p, p.coming_up_stack[n])

\* coming_up reading one token ahead of the one asked for
coming_up_eager(p, n) ==
    IF Len(p.coming_up_stack) < n + 1 /\ p.iterator # <<>>
    THEN coming_up(appendleft_next(p), n)
    ELSE IF Len(p.coming_up_stack) < n
         THEN Raise(p, "EOFError", 23)
         ELSE Return(p, p.coming_up_stack[Len(p.coming_up_stack) - n + 1])

\* coming_up that gives up, the fetched tokens dropped, when the producer
\* cannot supply all the tokens asked for
coming_up_all_or_nothing(p, n) ==
    IF Len(p.coming_up_stack) < n
    THEN IF Len(p.iterator) < n - Len(p.coming_up_stack)
         THEN Raise([p EXCEPT !.iterator = <<>>], "EOFError", 23)
         ELSE coming_up(appendleft_next(p), n)
    ELSE Return(p, p.coming_up_stack[Len(p.coming_up_stack) - n + 1])

coming_up(p, n) ==
    IF Len(p.coming_up_stack) < n
    THEN IF p.iterator = <<>>
         THEN Raise(p, "EOFError", 23)
         ELSE coming_up(appendleft_next(p), n)
    ELSE Return(p, p.coming_up_stack[Len(p.coming_up_stack) - n + 1])

something_coming_up(p) ==
    IF p.coming_up_stack = <<>>
    THEN IF p.iterator = <<>>
         THEN Return(p, FALSE)
         ELSE Return(appendleft_next(p), TRUE)
    ELSE Return(p, TRUE)

\* "pop and check": the order the source comment warns against
check_and_pop_popfirst(p, kind, value) ==
    Then(pop(p), LAMBDA r :
    IF r.val.kind # kind THEN Raise(r.p, "AssertionError", 37)
    ELSE IF value # <<>> /\ r.val.value # value[1]
         THEN Raise(r.p, "AssertionError", 39)
    ELSE r)

\* value is <<>> for the default None, <<v>> for a given value v
check_and_pop(p, kind, value) ==
    Then(coming_up(p, 1), LAMBDA c :
    IF c.val.kind # kind THEN Raise(c.p, "AssertionError", 37)
    ELSE IF value # <<>> /\ c.val.value # value[1]
         THEN Raise(c.p, "AssertionError", 39)
    ELSE pop(c.p))

----------------------------------------------------------------------------
(* _Parser.  p is the parser's state: the cursor fields plus the call     *)
(* trace `calls'.  Every operator returns Return(p', value) or a raise.    *)

\* every identifier the dispatcher and the grammar recognise, reserved
KEYWORDS_all == {"return", "if", "function", "returns"}

KEYWORDS == {"return", "if"}

\* Token.info as the parser compares it: the (kind, value) pair
info(token) == <<token.kind, token.value>>

\* int(token.value) on a decimal literal
int(value) == CHOOSE n \in 0..9 : ToString(n) = value

\* token.value[1:-1] on a quoted literal
unquoted(value) == CASE value = "\"x\"" -> "x"
                     [] value = "\"\"" -> ""

Name(name, start, end) ==
    [tag |-> "Name", name |-> name, start |-> start, end |-> end]
Integer(value, start, end) ==
    [tag |-> "Integer", value |-> value, start |-> start, end |-> end]
String(value, start, end) ==
    [tag |-> "String", value |-> value, start |-> start, end |-> end]
FunctionCall(function, arguments, start, end) ==
    [tag |-> "FunctionCall", function |-> function, arguments |-> arguments,
     start |-> start, end |-> end]
ExpressionStatement(expression, start, end) ==
    [tag |-> "ExpressionStatement", expression |-> expression,
     start |-> start, end |-> end]
Declaration(type, variable, value, start, end) ==
    [tag |-> "Declaration", type |-> type, variable |-> variable,
     value |-> value, start |-> start, end |-> end]
Assignment(variable, value, start, end) ==
    [tag |-> "Assignment", variable |-> variable, value |-> value,
     start |-> start, end |-> end]
If(condition, body, start, end) ==
    [tag |-> "If", condition |-> condition, body |-> body,
     start |-> start, end |-> end]
FunctionDef(name, arguments, returntype, body, start, end) ==
    [tag |-> "FunctionDef", name |-> name, arguments |-> arguments,
     returntype |-> returntype, body |-> body, start |-> start, end |-> end]
ReturnNode(value, start, end) ==
    [tag |-> "Return", value |-> value, start |-> start, end |-> end]

\* number of tokens not yet consumed
Unconsumed(p) == Len(p.iterator) + Len(p.coming_up_stack)

\* record that an iteration of the loop `loop' begins
Iteration(p, loop) ==
    [p EXCEPT !.usage.loops =
                  Append(@, [loop |-> loop, left |-> Unconsumed(p)])]

\* record in the call trace that fn is entered
Enter(p, fn) ==
    [p EXCEPT !.calls = Append(@, [fn |-> fn, left |-> Unconsumed(p)])]

\* parse_name(check_for_keywords=False): the reservation check left out
parse_name_unchecked(p, check_for_keywords) ==
    Then(check_and_pop(p, "NAME", <<>>), LAMBDA token :
    Return(token.p, Name(token.val.value, token.val.start, token.val.end)))

parse_name(p, check_for_keywords) ==
    Then(check_and_pop(p, "NAME", <<>>), LAMBDA token :
    IF check_for_keywords /\ token.val.value \in KEYWORDS
    THEN Raise(token.p, "AssertionError", 105)
    ELSE Return(token.p,
                Name(token.val.value, token.val.start, token.val.end)))

parse_integer(p) ==
    Then(check_and_pop(p, "INTEGER", <<>>), LAMBDA token :
    Return(token.p,
           Integer(int(token.val.value), token.val.start, token.val.end)))

parse_string(p) ==
    Then(check_and_pop(p, "STRING", <<>>), LAMBDA token :
    Return(token.p, String(unquoted(token.val.value),
                           token.val.start, token.val.end)))

\* returns <<typenode, name_string>> (the print(name) writes to stdout only)
type_and_name(p) ==
    Then(parse_name(p, TRUE), LAMBDA typenode :
    Then(parse_name(typenode.p, TRUE), LAMBDA name :
    Return(name.p, <<typenode.val, name.val.name>>)))

RECURSIVE parse_comma_list(_, _, _), comma_list_loop(_, _, _, _),
          parse_expression(_), call_suffix_loop(_, _),
          parse_statement(_), statement_body(_, _),
          parse_if(_), parse_function_def(_)

\* last_token = self.tokens.pop(); the list is complete
comma_list_end(p, elements) ==
    Then(pop(p), LAMBDA last_token :
    Return(last_token.p, <<elements, last_token.val>>))

\* the loop of _parse_comma_list with no look for the stop after a comma
comma_list_loop_strict(p, stop, parsemethod, elements) ==
    Then(IF parsemethod = "parse_expression"
         THEN parse_expression(Iteration(p, "_parse_comma_list"))
         ELSE type_and_name(Iteration(p, "_parse_comma_list")),
         LAMBDA element :
    Then(coming_up(element.p, 1), LAMBDA c1 :
    IF info(c1.val) = <<"OP", stop>>
    THEN comma_list_end(c1.p, Append(elements, element.val))
    ELSE
    Then(check_and_pop(c1.p, "OP", <<",">>), LAMBDA comma :
    comma_list_loop(comma.p, stop, parsemethod,
                    Append(elements, element.val)))))

\* the while True loop of _parse_comma_list, entered with `elements'
comma_list_loop(p, stop, parsemethod, elements) ==
    Then(IF parsemethod = "parse_expression"
         THEN parse_expression(Iteration(p, "_parse_comma_list"))
         ELSE type_and_name(Iteration(p, "_parse_comma_list")),
         LAMBDA element :
    Then(coming_up(element.p, 1), LAMBDA c1 :
    IF info(c1.val) = <<"OP", stop>>
    THEN comma_list_end(c1.p, Append(elements, element.val))
    ELSE
    Then(check_and_pop(c1.p, "OP", <<",">>), LAMBDA comma :
    Then(coming_up(comma.p, 1), LAMBDA c2 :
    IF info(c2.val) = <<"OP", stop>>
    THEN comma_list_end(c2.p, Append(elements, element.val))
    ELSE comma_list_loop(c2.p, stop, parsemethod,
                         Append(elements, element.val))))))

\* returns <<elements, last_token>>
parse_comma_list(p, stop, parsemethod) ==
    Then(coming_up(p, 1), LAMBDA c :
    IF info(c.val) = <<"OP", stop>>
    THEN comma_list_end(c.p, <<>>)
    ELSE comma_list_loop(c.p, stop, parsemethod, <<>>))

\* the loop of parse_expression calling, at every suffix, the primary
\* rather than the expression parsed so far
call_suffix_loop_flat(p, result) ==
    Then(coming_up(p, 1), LAMBDA next_token :
    IF next_token.val.kind # "OP" \/ next_token.val.value # "("
    THEN Return(next_token.p, result)
    ELSE
    Then(check_and_pop(Iteration(next_token.p, "parse_expression"),
                       "OP", <<"(">>), LAMBDA openparen :
    Then(parse_comma_list(openparen.p, ")", "parse_expression"), LAMBDA list :
    call_suffix_loop(list.p,
                     FunctionCall(IF result.tag = "FunctionCall"
                                  THEN result.function ELSE result,
                                  list.val[1],
                                  result.start, list.val[2].end)))))

\* the while True loop of parse_expression, entered with `result'
call_suffix_loop(p, result) ==
    Then(coming_up(p, 1), LAMBDA next_token :
    IF next_token.val.kind # "OP" \/ next_token.val.value # "("
    THEN Return(next_token.p, result)
    ELSE
    Then(check_and_pop(Iteration(next_token.p, "parse_expression"),
                       "OP", <<"(">>), LAMBDA openparen :
    Then(parse_comma_list(openparen.p, ")", "parse_expression"), LAMBDA list :
    call_suffix_loop(list.p, FunctionCall(result, list.val[1],
                                          result.start, list.val[2].end)))))

parse_expression(p) ==
    Then(coming_up(p, 1), LAMBDA c :
    Then(IF c.val.kind = "NAME" THEN parse_name(c.p, TRUE)
         ELSE IF c.val.kind = "STRING" THEN parse_string(c.p)
         ELSE IF c.val.kind = "INTEGER" THEN parse_integer(c.p)
         ELSE Raise(c.p, "ValueError", 160), LAMBDA result :
    call_suffix_loop(result.p, result.val)))

parse_expression_statement(p) ==
    Then(parse_expression(Enter(p, "parse_expression_statement")),
         LAMBDA value :
    Then(check_and_pop(value.p, "OP", <<";">>), LAMBDA semicolon :
    Return(semicolon.p,
           ExpressionStatement(value.val, value.val.start,
                               semicolon.val.end))))

assignment(p) ==
    Then(parse_name(Enter(p, "assignment"), TRUE), LAMBDA variable :
    Then(check_and_pop(variable.p, "OP", <<"=">>), LAMBDA eq :
    Then(parse_expression(eq.p), LAMBDA value :
    Then(check_and_pop(value.p, "OP", <<";">>), LAMBDA semicolon :
    Return(semicolon.p,
           Assignment(variable.val, value.val,
                      variable.val.start, semicolon.val.end))))))

\* while coming_up().info != ('OP', '}'): body.append(parse_statement())
statement_body(p, body) ==
    Then(coming_up(p, 1), LAMBDA c :
    IF info(c.val) = <<"OP", "}">> THEN Return(c.p, body)
    ELSE Then(parse_statement(Iteration(c.p, "body")), LAMBDA statement :
         statement_body(statement.p, Append(body, statement.val))))

parse_if(p) ==
    Then(check_and_pop(Enter(p, "parse_if"), "NAME", <<"if">>),
         LAMBDA the_if :
    Then(parse_expression(the_if.p), LAMBDA condition :
    Then(check_and_pop(condition.p, "OP", <<"{">>), LAMBDA brace :
    Then(statement_body(brace.p, <<>>), LAMBDA body :
    Then(check_and_pop(body.p, "OP", <<"}">>), LAMBDA closing_brace :
    Return(closing_brace.p,
           If(condition.val, body.val,
              the_if.val.start, closing_brace.val.end)))))))

\* parse_declaration taking the third token with a bare pop()
parse_declaration_bare_pop(p) ==
    Then(type_and_name(Enter(p, "parse_declaration")), LAMBDA pair :
    Then(pop(pair.p), LAMBDA third_thing :
    IF third_thing.val.kind # "OP"
    THEN Raise(third_thing.p, "AssertionError", 37)
    ELSE IF third_thing.val.value = ";"
    THEN Return(third_thing.p,
                Declaration(pair.val[1], pair.val[2], None,
                            pair.val[1].start, third_thing.val.end))
    ELSE
    Then(parse_expression(third_thing.p), LAMBDA initial_value :
    Then(check_and_pop(initial_value.p, "OP", <<";">>), LAMBDA semicolon :
    Return(semicolon.p,
           Declaration(pair.val[1], pair.val[2], initial_value.val,
                       pair.val[1].start, third_thing.val.end))))))

\* pair.val is (datatype, variable_name)
parse_declaration(p) ==
    Then(type_and_name(Enter(p, "parse_declaration")), LAMBDA pair :
    Then(check_and_pop(pair.p, "OP", <<>>), LAMBDA third_thing :
    IF third_thing.val.value = ";"
    THEN Return(third_thing.p,
                Declaration(pair.val[1], pair.val[2], None,
                            pair.val[1].start, third_thing.val.end))
    ELSE
    Then(parse_expression(third_thing.p), LAMBDA initial_value :
    Then(check_and_pop(initial_value.p, "OP", <<";">>), LAMBDA semicolon :
    Return(semicolon.p,
           Declaration(pair.val[1], pair.val[2], initial_value.val,
                       pair.val[1].start, third_thing.val.end))))))

parse_return(p) ==
    Then(check_and_pop(Enter(p, "parse_return"), "NAME", <<"return">>),
         LAMBDA the_return :
    Then(parse_expression(the_return.p), LAMBDA value :
    Then(check_and_pop(value.p, "OP", <<";">>), LAMBDA semicolon :
    Return(semicolon.p,
           ReturnNode(value.val, the_return.val.start, semicolon.val.end)))))

\* parse_statement with the NAME NAME test moved before the keyword tests
parse_statement_names_first(p) ==
    Then(coming_up(Enter(p, "parse_statement"), 1), LAMBDA c1 :
    IF c1.val.kind = "NAME"
    THEN Then(coming_up(c1.p, 2), LAMBDA after_name :
         IF after_name.val.kind = "NAME"
         THEN parse_declaration(after_name.p)
         ELSE IF c1.val.value = "return" THEN parse_return(c1.p)
         ELSE IF c1.val.value = "if" THEN parse_if(c1.p)
         ELSE IF c1.val.value = "function" THEN parse_function_def(c1.p)
         ELSE IF info(after_name.val) = <<"OP", "=">>
              THEN assignment(after_name.p)
         ELSE parse_expression_statement(after_name.p))
    ELSE parse_expression_statement(c1.p))

parse_statement(p) ==
    Then(coming_up(Enter(p, "parse_statement"), 1), LAMBDA c1 :
    IF c1.val.kind = "NAME"
    THEN IF c1.val.value = "return" THEN parse_return(c1.p)
         ELSE IF c1.val.value = "if" THEN parse_if(c1.p)
         ELSE IF c1.val.value = "function" THEN parse_function_def(c1.p)
         ELSE Then(coming_up(c1.p, 2), LAMBDA after_name :
              IF info(after_name.val) = <<"OP", "=">>
              THEN assignment(after_name.p)
              ELSE IF after_name.val.kind = "NAME"
              THEN parse_declaration(after_name.p)
              ELSE parse_expression_statement(after_name.p))
    ELSE parse_expression_statement(c1.p))

\* the optional `returns <TypeName>' clause; c is the peeked next token
returns_clause(c) ==
    IF info(c.val) = <<"NAME", "returns">>
    THEN Then(pop(c.p), LAMBDA returns : parse_name(returns.p, TRUE))
    ELSE Return(c.p, None)

parse_function_def(p) ==
    Then(check_and_pop(Enter(p, "parse_function_def"), "NAME",
                       <<"function">>), LAMBDA function_keyword :
    Then(parse_name(function_keyword.p, TRUE), LAMBDA name :
    Then(check_and_pop(name.p, "OP", <<"(">>), LAMBDA paren :
    Then(parse_comma_list(paren.p, ")", "_type_and_name"), LAMBDA list :
    Then(coming_up(list.p, 1), LAMBDA c :
    Then(returns_clause(c), LAMBDA returntype :
    Then(check_and_pop(returntype.p, "OP", <<>>), LAMBDA before_body :
    Then(statement_body(before_body.p, <<>>), LAMBDA body :
    Then(check_and_pop(body.p, "OP", <<"}">>), LAMBDA closing_brace :
    Return(closing_brace.p,
           FunctionDef(name.val.name, list.val[1], returntype.val,
                       body.val, function_keyword.val.start,
                       closing_brace.val.end)))))))))))

\* what a resumption of the generator hands its caller after the statement
\* parse r: the node, or the exception.  A StopIteration escaping the
\* generator body reaches the caller as RuntimeError (PEP 479).
resumption(r) ==
    IF Raised(r)
    THEN [p |-> r.p, to |-> "raised", val |-> None,
          exc |-> IF r.exc.type = "StopIteration"
                  THEN [type |-> "RuntimeError", line |-> 285]
                  ELSE r.exc]
    ELSE [p |-> r.p, to |-> "suspended", exc |-> NoExc, val |-> r.val]

\* the try block of parse_file; c is the outcome of coming_up(1)
remaining_checked(c) ==
    IF c.exc.type = "EOFError"
    THEN [p |-> c.p, to |-> "exhausted", exc |-> NoExc, val |-> None]
    ELSE resumption(Then(c, LAMBDA ok : parse_statement(ok.p)))

\* parse_file without the look for a remaining token before each statement
parse_file_unguarded(p) == resumption(parse_statement(p))

\* One resumption of the generator parse_file: it yields a node, finishes
\* (StopIteration to the caller) or raises.
parse_file(p) == remaining_checked(coming_up(p, 1))

----------------------------------------------------------------------------
(* SpecCursor: one cursor, called in any order *)

RECURSIVE SeqsUpTo(_, _)
SeqsUpTo(S, n) ==
    IF n = 0 THEN {<<>>}
    ELSE LET shorter == SeqsUpTo(S, n - 1) IN
         shorter \cup {Append(s, x) : s \in {t \in shorter : Len(t) = n - 1},
                                      x \in S}

Cursor == [iterator |-> iterator, coming_up_stack |-> coming_up_stack,
           usage |-> usage]

NoCall == [op |-> "none", n |-> 0, kind |-> "", value |-> <<>>,
           exc |-> NoExc, val |-> None]

CursorInit ==
    /\ tokens \in {tokenize(lx) : lx \in SeqsUpTo(CursorVocab, CursorMaxLen)}
    /\ iterator = tokens
    /\ coming_up_stack = <<>>
    /\ calls = <<>>
    /\ yielded = <<>>
    /\ status = "suspended"
    /\ error = NoExc
    /\ popped = <<>>
    /\ last = NoCall
    /\ usage = NoUsage

\* the cursor after the call, and the record of the call
Called(r, op, n, kind, value) ==
    /\ iterator' = r.p.iterator
    /\ coming_up_stack' = r.p.coming_up_stack
    /\ usage' = r.p.usage
    /\ last' = [op |-> op, n |-> n, kind |-> kind, value |-> value,
                exc |-> r.exc, val |-> r.val]
    /\ UNCHANGED <<tokens, calls, yielded, status, error>>

Pop ==
    LET r == pop(Cursor) IN
    /\ Called(r, "pop", 0, "", <<>>)
    /\ popped' = IF Raised(r) THEN popped ELSE Append(popped, r.val)

ComingUp ==
    \E n \in 1..MaxPeek :
        /\ Called(coming_up(Cursor, n), "coming_up", n, "", <<>>)
        /\ UNCHANGED popped

SomethingComingUp ==
    /\ Called(something_coming_up(Cursor), "something_coming_up", 0, "", <<>>)
    /\ UNCHANGED popped

CheckAndPop ==
    \E kind \in {"NAME", "OP"}, value \in {<<>>, <<"a">>, <<";">>} :
        LET r == check_and_pop(Cursor, kind, value) IN
        /\ Called(r, "check_and_pop", 0, kind, value)
        /\ popped' = IF Raised(r) THEN popped ELSE Append(popped, r.val)

CursorNext == Pop \/ ComingUp \/ SomethingComingUp \/ CheckAndPop

SpecCursor == CursorInit /\ [][CursorNext]_vars

----------------------------------------------------------------------------
(* Spec: the caller of parse(tokens) drives the generator *)

Parser == [iterator |-> iterator, coming_up_stack |-> coming_up_stack,
           calls |-> calls, usage |-> usage]

\* parse(tokens): a fresh parser over the tokens, generator not yet started
parse(toks) == [iterator |-> toks, coming_up_stack |-> <<>>, calls |-> <<>>,
                usage |-> NoUsage]

\* list(parse(toks)): the generator driven until it finishes or raises;
\* r is the outcome of the latest resumption
RECURSIVE drive(_, _)
drive(r, nodes) ==
    IF r.to = "suspended"
    THEN drive(parse_file(r.p), Append(nodes, r.val))
    ELSE [p |-> r.p, to |-> r.to, exc |-> r.exc, nodes |-> nodes]

\* the outcome of driving parse() over the lexemes lx to its end
driven(lx) == drive(parse_file(parse(tokenize(lx))), <<>>)

\* the parser reads on after lx: it neither failed nor stopped short of
\* the end of lx for another reason than the end of the input
reads_on(d) == d.to = "exhausted" \/ d.exc.type = "EOFError"
Viable(lx) == reads_on(driven(lx))

\* `level' (lexeme sequences of one length) and its extensions by up to n
\* more tokens: every sequence over Vocab whose tokens before the last one
\* do not already make the parse fail (what follows the token a parse fails
\* at is never read).
RECURSIVE Extended(_, _)
Extended(level, n) ==
    IF n = 0 THEN level
    ELSE level \cup
         Extended({Append(lx, x) : lx \in {v \in level : Viable(v)},
                                   x \in Vocab}, n - 1)

N(v) == <<"NAME", v>>
O(v) == <<"OP", v>>
I1 == <<"INTEGER", "1">>
Sx == <<"STRING", "\"x\"">>

\* the program of the __main__ block, identifiers written a, integers 1,
\* strings "x"
MainFunction ==
    <<N("function"), N("a"), O("("), N("a"), N("a"), O(")"),
          N("returns"), N("a"), O("{"),
        N("a"), N("a"), O("="), I1, O(";"),
        N("if"), N("a"), O("{"),
          N("a"), O("("), Sx, O(")"), O(";"),
        O("}"),
        N("return"), I1, O(";"),
      O("}")>>

MainProgram ==
    <<N("a"), N("a"), O(";"),
      N("a"), O("="), I1, O(";"),
      N("function"), N("a"), O("("), O(")"), O("{"), O("}")>>
        \o MainFunction

\* further sources: the __main__ program and the statements the parser's
\* comments and its specification give as examples
Programs ==
    { MainProgram, MainFunction,
      <<N("function"), N("a"), O("("), O(")"), O("{"), O("}")>>,
      <<N("a"), O("="), N("a"), O("("), I1, O(","), Sx, O(","), O(")"),
        O(";")>>,
      <<N("a"), O("("), O(")"), O("("), O(")"), O("("), O(")"), O(";")>>,
      <<N("if"), N("a"), O("{"), N("return"), I1, O(";"), O("}")>>,
      <<N("if"), N("if"), O("{"), O("}")>>,
      <<N("function"), N("a"), O("("), O(")"), N("returns"), N("a"),
        O("{"), O("}")>>,
      <<N("function"), N("a"), O("("), N("a"), N("a"), O(","), N("a"),
        N("a"), O(","), O(")"), O("{"), O("}")>> }

\* a program cut after any token, or with any one token replaced
Variants(prog) ==
    {SubSeq(prog, 1, n) : n \in 0..Len(prog)}
        \cup {[prog EXCEPT ![i] = x] : i \in 1..Len(prog), x \in Vocab}
        \cup {Append(SubSeq(prog, 1, n), x) : n \in 0..Len(prog), x \in Vocab}

Inputs == Extended({<<>>}, MaxLen) \cup UNION {Variants(prog) : prog \in Programs}

Init ==
    /\ tokens \in {tokenize(lx) : lx \in Inputs}
    /\ iterator = tokens
    /\ coming_up_stack = <<>>
    /\ calls = <<>>
    /\ yielded = <<>>
    /\ status = "suspended"
    /\ error = NoExc
    /\ popped = <<>>
    /\ last = NoCall
    /\ usage = NoUsage

\* a driver that, when a statement fails, lets the caller ask again
Delivered_retried(r) ==
    /\ iterator' = r.p.iterator
    /\ coming_up_stack' = r.p.coming_up_stack
    /\ calls' = r.p.calls
    /\ usage' = r.p.usage
    /\ status' = IF r.to = "raised" THEN "suspended" ELSE r.to
    /\ error' = r.exc
    /\ yielded' = IF r.to = "suspended" THEN Append(yielded, r.val)
                  ELSE yielded
    /\ UNCHANGED <<tokens, popped, last>>

\* a driver that hands the caller a node for the statement that failed
Delivered_partial(r) ==
    /\ iterator' = r.p.iterator
    /\ coming_up_stack' = r.p.coming_up_stack
    /\ calls' = r.p.calls
    /\ usage' = r.p.usage
    /\ status' = r.to
    /\ error' = r.exc
    /\ yielded' = IF r.to = "exhausted" THEN yielded
                  ELSE Append(yielded, r.val)
    /\ UNCHANGED <<tokens, popped, last>>

\* the caller's view after a resumption with outcome r
Delivered(r) ==
    /\ iterator' = r.p.iterator
    /\ coming_up_stack' = r.p.coming_up_stack
    /\ calls' = r.p.calls
    /\ usage' = r.p.usage
    /\ status' = r.to
    /\ error' = r.exc
    /\ yielded' = IF r.to = "suspended" THEN Append(yielded, r.val)
                  ELSE yielded
    /\ UNCHANGED <<tokens, popped, last>>

\* the caller asks the generator for its next node
Resume ==
    /\ status = "suspended"
    /\ Delivered(parse_file(Parser))

Next == Resume

Spec == Init /\ [][Next]_vars

\* the caller is `for node in parse(tokens)': it asks for the next node as
\* long as the generator has one
FairSpec == Spec /\ WF_vars(Resume)

----------------------------------------------------------------------------
(* Vocabulary of the properties *)

\* the error taxonomy: which kind of failure an exception of the code is
ErrorKind(exc) ==
    CASE exc.type = "EOFError" -> "UnexpectedEndOfInput"
      [] exc.type = "AssertionError" /\ exc.line \in {37, 39}
            -> "UnexpectedToken"
      [] exc.type = "AssertionError" /\ exc.line = 105
            -> "ReservedKeywordUsed"
      [] exc.type = "ValueError" -> "InvalidToken"
      [] OTHER -> exc.type

Reverse(s) == [i \in 1..Len(s) |-> s[Len(s) + 1 - i]]

\* the not-yet-consumed tokens, next one first
Remaining == Reverse(coming_up_stack) \o iterator

\* number of tokens consumed so far
Consumed == Len(tokens) - Len(iterator) - Len(coming_up_stack)

\* the lexemes of a token sequence
Lex(toks) == [i \in 1..Len(toks) |-> info(toks[i])]

\* the generator has been resumed at least once
Started == calls # <<>> \/ status # "suspended"

\* the inputs that parse as exactly one statement
one_statement(d) == d.to = "exhausted" /\ Len(d.nodes) = 1
ValidOne == {lx \in Inputs : one_statement(driven(lx))}

\* the non-empty proper prefixes of the inputs that parse as one statement
Truncated ==
    UNION {{SubSeq(lx, 1, n) : n \in 1..(Len(lx) - 1)} : lx \in ValidOne}

\* the lengths of the valid statements lx is the concatenation of, in
\* order; <<0>> when lx is no such concatenation
RECURSIVE Split(_)
Split(lx) ==
    IF lx = <<>> THEN <<>>
    ELSE LET cuts == {n \in 1..Len(lx) : SubSeq(lx, 1, n) \in ValidOne} IN
         IF cuts = {} THEN <<0>>
         ELSE LET n == CHOOSE m \in cuts : \A o \in cuts : m <= o
                  rest == Split(SubSeq(lx, n + 1, Len(lx))) IN
              IF rest = <<0>> THEN <<0>> ELSE <<n>> \o rest

RECURSIVE Sum(_)
Sum(lens) == IF lens = <<>> THEN 0 ELSE Head(lens) + Sum(Tail(lens))

----------------------------------------------------------------------------
(* Properties of the cursor (SpecCursor) *)

\* C2: the tokens returned by the successful pops, followed by the buffered
\* and the not yet fetched tokens, are the producer's tokens in producer
\* order: the pops return a prefix, nothing fetched twice, skipped or
\* reordered.
PopsArePrefixInOrder == popped \o Remaining = tokens

PopsInterleavedWithPeeks ==
    /\ Len(popped) >= 2
    /\ coming_up_stack # <<>>
    /\ last.op = "something_coming_up"

Mismatch(token, kind, value) ==
    token.kind # kind \/ (value # <<>> /\ token.value # value[1])

\* C4: check_and_pop on a cursor with a next token: on a kind or value
\* mismatch it fails with UnexpectedToken and the not-yet-consumed tokens
\* are unchanged; on a match it returns the next token and consumes
\* exactly that one.
CheckAndPopChecksFirst ==
    [][(last'.op = "check_and_pop" /\ Remaining # <<>>) =>
         IF Mismatch(Head(Remaining), last'.kind, last'.value)
         THEN /\ ErrorKind(last'.exc) = "UnexpectedToken"
              /\ Remaining' = Remaining
              /\ popped' = popped
         ELSE /\ last'.exc = NoExc
              /\ last'.val = Head(Remaining)
              /\ Remaining' = Tail(Remaining)]_vars

CheckAndPopMismatch ==
    /\ last.op = "check_and_pop"
    /\ ErrorKind(last.exc) = "UnexpectedToken"
    /\ Remaining # <<>>
    /\ Mismatch(Head(Remaining), last.kind, last.value)

\* C8: a pop() that fails (no token left) fails with UnexpectedEndOfInput.
PopOnExhaustedIsEndOfInput ==
    (last.op = "pop" /\ Raised(last)) =>
        ErrorKind(last.exc) = "UnexpectedEndOfInput"

\* C12: a coming_up(n) leaves the unconsumed tokens and the popped ones as
\* they were; when at least n tokens are unconsumed it returns the n-th of
\* them, which is the token the n-th pop from here returns (the pops return
\* the producer's tokens in order), and so does a repeated coming_up(n);
\* when fewer than n are unconsumed, and only then, it fails with
\* UnexpectedEndOfInput.
ComingUpPeeksTheNth ==
    [][last'.op = "coming_up" =>
          /\ Remaining' = Remaining
          /\ popped' = popped
          /\ IF Len(Remaining) >= last'.n
             THEN /\ ~Raised(last')
                  /\ last'.val = Remaining[last'.n]
                  /\ last'.val = tokens[Len(popped) + last'.n]
                  /\ coming_up(Cursor', last'.n).val = last'.val
             ELSE ErrorKind(last'.exc) = "UnexpectedEndOfInput"]_vars

PeekedSecondAfterPop ==
    /\ last.op = "coming_up"
    /\ last.n = 2
    /\ ~Raised(last)
    /\ popped # <<>>

\* the tokens the pops return from the cursor p on, until a pop fails
RECURSIVE PoppedToEnd(_)
PoppedToEnd(p) ==
    LET r == pop(p) IN
    IF Raised(r) THEN <<>> ELSE <<r.val>> \o PoppedToEnd(r.p)

\* C19: right after a coming_up(n) that failed, the m < n tokens that were
\* unconsumed are all in the buffer and none is lost: pops return them, and
\* nothing else, in producer order, coming_up(j) succeeds for every j <= m
\* with the j-th of them, and something_coming_up() is true exactly when
\* m >= 1.
FailedPeekLosesNoToken ==
    (last.op = "coming_up" /\ Raised(last)) =>
        /\ Len(Remaining) < last.n
        /\ iterator = <<>>
        /\ popped \o PoppedToEnd(Cursor) = tokens
        /\ Len(PoppedToEnd(Cursor)) = Len(Remaining)
        /\ \A j \in 1..Len(Remaining) :
              /\ ~Raised(coming_up(Cursor, j))
              /\ coming_up(Cursor, j).val = tokens[Len(popped) + j]
        /\ something_coming_up(Cursor).val = (Len(Remaining) >= 1)

FailedPeekWithOneBuffered ==
    /\ last.op = "coming_up"
    /\ Raised(last)
    /\ last.n = 2
    /\ Len(coming_up_stack) = 1
    /\ popped # <<>>

----------------------------------------------------------------------------
(* Properties of the parser (Spec) *)

\* C1: the node a resumption yields starts at the first token consumed for
\* the statement and ends at the last token consumed for it.
NodeSpansConsumedTokens ==
    [][yielded' # yielded =>
         LET node == yielded'[Len(yielded')] IN
         /\ node.start = tokens[Consumed + 1].start
         /\ node.end = tokens[Consumed'].end]_vars

\* C3 as stated: once the parse has failed the caller holds no node.
NoNodeOnceFailed == status = "raised" => yielded = <<>>

\* C3, amended: the resumption that fails hands the caller no node, and
\* the generator is never resumed after it; what was yielded before stays.
FailureYieldsNothingMore ==
    [][/\ status = "suspended"
       /\ status' = "raised" => yielded' = yielded]_vars

FailedAfterYielding == status = "raised" /\ yielded # <<>>

\* index in tokens of the token check_and_pop('OP') takes before the body
\* of the top-level FunctionDef node
BeforeBody(node) ==
    LET function_keyword == (node.start + 1) \div 2
        closing == CHOOSE i \in (function_keyword + 3)..Len(tokens) :
                     /\ info(tokens[i]) = <<"OP", ")">>
                     /\ \A j \in (function_keyword + 3)..(i - 1) :
                            info(tokens[j]) # <<"OP", ")">> IN
    IF node.returntype.tag = "None" THEN closing + 1 ELSE closing + 3

\* C5: a FunctionDef node is produced only when the token after the
\* argument list and the optional returns clause is the operator {.
FunctionBodyOpensWithBrace ==
    \A k \in 1..Len(yielded) :
        yielded[k].tag = "FunctionDef" =>
            info(tokens[BeforeBody(yielded[k])]) = <<"OP", "{">>

IfIf == tokenize(<<N("if"), N("if"), O("{"), O("}")>>)

\* C6 as stated: `if if { }` fails with InvalidToken.
IfIfIsInvalidToken ==
    (tokens = IfIf /\ Started) =>
        (status = "raised" /\ ErrorKind(error) = "InvalidToken")

\* C6, amended: a keyword NAME token (return, if) where the condition of
\* an If is expected makes the parse fail with ReservedKeywordUsed.
KeywordAsConditionIsReserved ==
    (/\ Len(tokens) >= 2
     /\ info(tokens[1]) = <<"NAME", "if">>
     /\ tokens[2].kind = "NAME" /\ tokens[2].value \in KEYWORDS
     /\ Started) =>
        /\ status = "raised"
        /\ ErrorKind(error) = "ReservedKeywordUsed"
        /\ yielded = <<>>

IfIfFailed == tokens = IfIf /\ status = "raised"

\* C7: a non-empty proper prefix of a token sequence that parses as one
\* statement fails with UnexpectedEndOfInput, before any node is yielded.
TruncatedIsEndOfInput ==
    (Lex(tokens) \in Truncated /\ Started) =>
        /\ status = "raised"
        /\ ErrorKind(error) = "UnexpectedEndOfInput"
        /\ yielded = <<>>

IntAFailed ==
    /\ Lex(tokens) = <<N("a"), N("a")>>
    /\ Lex(tokens) \in Truncated
    /\ status = "raised"

\* the statement parser the dispatch rules select for the statement whose
\* first token is tokens[at]
Selected(at) ==
    LET t1 == tokens[at]
        two == at + 1 <= Len(tokens) IN
    IF info(t1) = <<"NAME", "return">> THEN "parse_return"
    ELSE IF info(t1) = <<"NAME", "if">> THEN "parse_if"
    ELSE IF info(t1) = <<"NAME", "function">> THEN "parse_function_def"
    ELSE IF t1.kind = "NAME" /\ two /\ info(tokens[at + 1]) = <<"OP", "=">>
         THEN "assignment"
    ELSE IF t1.kind = "NAME" /\ two /\ tokens[at + 1].kind = "NAME"
         THEN "parse_declaration"
    ELSE "parse_expression_statement"

\* C9: every parse_statement, top-level or nested, is followed in the call
\* trace by exactly the statement parser the rules select, entered with no
\* token consumed since; no statement parser runs otherwise.  (With a
\* single NAME left and no second token the dispatch itself ends the
\* parse.)
DispatchByFirstMatchingRule ==
    \A i \in 1..Len(calls) :
        LET at == Len(tokens) - calls[i].left + 1 IN
        IF calls[i].fn = "parse_statement"
        THEN /\ at <= Len(tokens)
             /\ IF i < Len(calls)
                THEN /\ calls[i + 1].fn = Selected(at)
                     /\ calls[i + 1].left = calls[i].left
                ELSE /\ status = "raised"
                     /\ at = Len(tokens)
                     /\ tokens[at].kind = "NAME"
                     /\ tokens[at].value \notin {"return", "if", "function"}
        ELSE i > 1 /\ calls[i - 1].fn = "parse_statement"

EveryFormDispatched ==
    /\ status = "exhausted"
    /\ {calls[i].fn : i \in 1..Len(calls)} =
          {"parse_statement", "parse_return", "parse_if",
           "parse_function_def", "assignment", "parse_declaration",
           "parse_expression_statement"}

\* C10: on the concatenation of k >= 0 valid statements the driver never
\* fails, yields the node of each statement in source order, and ends
\* after exactly k nodes with every token consumed.
ConcatenationYieldsEachStatement ==
    LET lens == Split(Lex(tokens)) IN
    lens # <<0>> =>
        /\ status # "raised"
        /\ Len(yielded) <= Len(lens)
        /\ \A k \in 1..Len(yielded) :
              yielded[k].start =
                  tokens[Sum(SubSeq(lens, 1, k - 1)) + 1].start
        /\ Consumed = Sum(SubSeq(lens, 1, Len(yielded)))
        /\ status = "exhausted" =>
              Len(yielded) = Len(lens) /\ Consumed = Len(tokens)

SeveralStatementsDriven ==
    /\ status = "exhausted"
    /\ Len(yielded) >= 3
    /\ Len(Split(Lex(tokens))) = Len(yielded)

----------------------------------------------------------------------------
(* Properties of the comma lists and the call suffixes *)

\* a node without its source positions
RECURSIVE Shape(_), ShapeAll(_)
Shape(node) ==
    CASE node.tag = "None" -> node
      [] node.tag = "Name" -> [tag |-> "Name", name |-> node.name]
      [] node.tag \in {"Integer", "String"} ->
            [tag |-> node.tag, value |-> node.value]
      [] node.tag = "FunctionCall" ->
            [tag |-> "FunctionCall", function |-> Shape(node.function),
             arguments |-> ShapeAll(node.arguments)]
      [] node.tag = "ExpressionStatement" ->
            [tag |-> node.tag, expression |-> Shape(node.expression)]
      [] node.tag = "Declaration" ->
            [tag |-> node.tag, type |-> Shape(node.type),
             variable |-> node.variable, value |-> Shape(node.value)]
      [] node.tag = "Assignment" ->
            [tag |-> node.tag, variable |-> Shape(node.variable),
             value |-> Shape(node.value)]
      [] node.tag = "If" ->
            [tag |-> node.tag, condition |-> Shape(node.condition),
             body |-> ShapeAll(node.body)]
      [] node.tag = "FunctionDef" ->
            [tag |-> node.tag, name |-> node.name,
             arguments |-> [i \in 1..Len(node.arguments) |->
                               <<Shape(node.arguments[i][1]),
                                 node.arguments[i][2]>>],
             returntype |-> Shape(node.returntype),
             body |-> ShapeAll(node.body)]
      [] node.tag = "Return" ->
            [tag |-> node.tag, value |-> Shape(node.value)]
ShapeAll(nodes) == [i \in 1..Len(nodes) |-> Shape(nodes[i])]

\* the FunctionCall nodes of a tree, and of a sequence of trees, listed
RECURSIVE CallsIn(_), CallsInAll(_)
CallsIn(node) ==
    CASE node.tag = "FunctionCall" ->
            <<node>> \o CallsIn(node.function) \o CallsInAll(node.arguments)
      [] node.tag = "ExpressionStatement" -> CallsIn(node.expression)
      [] node.tag \in {"Declaration", "Assignment", "Return"} ->
            CallsIn(node.value)
      [] node.tag = "If" ->
            CallsIn(node.condition) \o CallsInAll(node.body)
      [] node.tag = "FunctionDef" -> CallsInAll(node.body)
      [] OTHER -> <<>>
CallsInAll(nodes) ==
    IF nodes = <<>> THEN <<>>
    ELSE CallsIn(Head(nodes)) \o CallsInAll(Tail(nodes))

\* the FunctionDef nodes of a tree, and of a sequence of trees, listed
RECURSIVE DefsIn(_), DefsInAll(_)
DefsIn(node) ==
    CASE node.tag = "FunctionDef" -> <<node>> \o DefsInAll(node.body)
      [] node.tag = "If" -> DefsInAll(node.body)
      [] OTHER -> <<>>
DefsInAll(nodes) ==
    IF nodes = <<>> THEN <<>>
    ELSE DefsIn(Head(nodes)) \o DefsInAll(Tail(nodes))

\* index of the token that ends at position end
At(end) == end \div 2

\* the indexes of the `)' that close a non-empty list of the nodes: the
\* last token of a call, and the token after the last argument (and the
\* comma that may follow it) of a function definition
ListClosers(nodes) ==
    LET calls_found == CallsInAll(nodes)
        defs_found == DefsInAll(nodes)
        after(f) == At(f.arguments[Len(f.arguments)][1].end) + 2
    IN  {At(calls_found[k].end) :
            k \in {j \in 1..Len(calls_found) :
                      Len(calls_found[j].arguments) > 0}}
        \cup {IF info(tokens[after(defs_found[k])]) = <<"OP", ",">>
              THEN after(defs_found[k]) + 1 ELSE after(defs_found[k]) :
                 k \in {j \in 1..Len(defs_found) :
                           Len(defs_found[j].arguments) > 0}}

\* lx with x put in before its i-th lexeme, and lx without its i-th lexeme
Inserted(lx, i, x) == SubSeq(lx, 1, i - 1) \o <<x>> \o SubSeq(lx, i, Len(lx))
Removed(lx, i) == SubSeq(lx, 1, i - 1) \o SubSeq(lx, i + 1, Len(lx))

\* lx with its list closer i given a trailing comma, or relieved of it
Toggled(lx, i) ==
    IF lx[i - 1] = O(",") THEN Removed(lx, i - 1) ELSE Inserted(lx, i, O(","))

\* a comma after a comma or after an opening parenthesis
DanglingComma(lx) ==
    \E i \in 1..(Len(lx) - 1) :
        lx[i + 1] = O(",") /\ lx[i] \in {O(","), O("(")}

\* the same nodes, positions aside, come of driving lx to its end
SameTrees(lx) ==
    LET d == driven(lx) IN
    d.to = "exhausted" /\ ShapeAll(d.nodes) = ShapeAll(yielded)

\* C11: whenever a source has parsed to its end, adding a trailing comma to
\* any of its non-empty lists that has none, or taking the trailing comma
\* away from one that has it, gives a source that parses to the same nodes
\* (elements in the same order); and no source with a comma right after a
\* comma or right after an opening parenthesis parses to its end.
TrailingCommaChangesNothing ==
    status = "exhausted" =>
        /\ \A i \in ListClosers(yielded) : SameTrees(Toggled(Lex(tokens), i))
        /\ ~DanglingComma(Lex(tokens))

ListWithTrailingCommaParsed ==
    /\ status = "exhausted"
    /\ \E k \in 1..Len(CallsInAll(yielded)) :
          LET c == CallsInAll(yielded)[k] IN
          Len(c.arguments) = 2 /\ info(tokens[At(c.end) - 1]) = <<"OP", ",">>

\* the expression nodes of a tree, and of a sequence of trees, listed
RECURSIVE ExprsIn(_), ExprsInAll(_)
ExprsIn(node) ==
    CASE node.tag \in {"Name", "Integer", "String"} -> <<node>>
      [] node.tag = "FunctionCall" ->
            <<node>> \o ExprsIn(node.function) \o ExprsInAll(node.arguments)
      [] node.tag = "ExpressionStatement" -> ExprsIn(node.expression)
      [] node.tag \in {"Declaration", "Assignment", "Return"} ->
            ExprsIn(node.value)
      [] node.tag = "If" ->
            ExprsIn(node.condition) \o ExprsInAll(node.body)
      [] node.tag = "FunctionDef" -> ExprsInAll(node.body)
      [] OTHER -> <<>>
ExprsInAll(nodes) ==
    IF nodes = <<>> THEN <<>>
    ELSE ExprsIn(Head(nodes)) \o ExprsInAll(Tail(nodes))

\* which node of a tree a node is: its class and the positions it spans
Span(node) == <<node.tag, node.start, node.end>>

\* the arguments are what stands between the `(' at index open and the
\* `)' at index close: one after the other, a comma between two of them,
\* at most one comma after the last
ArgumentsFill(arguments, open, close) ==
    IF arguments = <<>> THEN close = open + 1
    ELSE /\ arguments[1].start = tokens[open + 1].start
         /\ \A j \in 1..(Len(arguments) - 1) :
               /\ info(tokens[At(arguments[j].end) + 1]) = <<"OP", ",">>
               /\ arguments[j + 1].start =
                      tokens[At(arguments[j].end) + 2].start
         /\ close - At(arguments[Len(arguments)].end) \in {1, 2}

CallCall == tokenize(<<N("a"), O("("), O(")"), O("("), O(")"), O(";")>>)

\* C14: every FunctionCall node begins where its callee begins, its callee
\* is the expression that ends right before the `(' of its suffix, its
\* arguments are the elements of that suffix in source order and it ends
\* with the `)' of that suffix; every expression followed by a `(' is the
\* callee of a FunctionCall (k suffixes give k calls), and a callee that is
\* no call is the one-token primary.  `a ( ) ( ) ;' yields
\* FunctionCall(FunctionCall(Name(a), []), []).
CallSuffixesNestLeft ==
    /\ \A k \in 1..Len(CallsInAll(yielded)) :
          LET c == CallsInAll(yielded)[k] IN
          /\ c.start = c.function.start
          /\ info(tokens[At(c.function.end) + 1]) = <<"OP", "(">>
          /\ info(tokens[At(c.end)]) = <<"OP", ")">>
          /\ ArgumentsFill(c.arguments, At(c.function.end) + 1, At(c.end))
          /\ c.function.tag # "FunctionCall" =>
                /\ c.function.tag \in {"Name", "Integer", "String"}
                /\ c.function.end = c.function.start + 1
    /\ \A k \in 1..Len(ExprsInAll(yielded)) :
          LET e == ExprsInAll(yielded)[k] IN
          info(tokens[At(e.end) + 1]) = <<"OP", "(">> =>
              \E j \in 1..Len(CallsInAll(yielded)) :
                  Span(CallsInAll(yielded)[j].function) = Span(e)
    /\ (tokens = CallCall /\ status = "exhausted") =>
          ShapeAll(yielded) =
              <<[tag |-> "ExpressionStatement", expression |->
                  [tag |-> "FunctionCall", arguments |-> <<>>, function |->
                      [tag |-> "FunctionCall", arguments |-> <<>>,
                       function |-> [tag |-> "Name", name |-> "a"]]]]>>

CallOfCallParsed ==
    /\ status = "exhausted"
    /\ \E k \in 1..Len(CallsInAll(yielded)) :
          LET c == CallsInAll(yielded)[k] IN
          /\ c.function.tag = "FunctionCall"
          /\ c.function.function.tag = "FunctionCall"
          /\ c.function.function.function.tag = "Name"

----------------------------------------------------------------------------
(* Properties of the binding names and the declarations *)

\* the indexes, in the lexemes lx, of the binding name of the first
\* statement: the variable of a declaration, the name of a function
\* definition, the name of its first argument
BindingPlaces(lx) ==
    {i \in {2} : /\ Len(lx) >= 2
                 /\ lx[1] \in {N("a"), N("returns"), N("function")}
                 /\ lx[2][1] = "NAME"}
        \cup
    {i \in {5} : /\ Len(lx) >= 5
                 /\ lx[1] = N("function")
                 /\ lx[2] \in {N("a"), N("returns"), N("function")}
                 /\ lx[3] = O("(")
                 /\ lx[4] \in {N("a"), N("returns"), N("function")}
                 /\ lx[5][1] = "NAME"}

\* the name the statement node binds at the binding place i
Bound(node, i) ==
    IF node.tag = "Declaration" THEN node.variable
    ELSE IF i = 2 THEN node.name
    ELSE node.arguments[1][2]

\* the outcome of the parse is the outcome of driving lx to its end
SameOutcome(lx) ==
    LET d == driven(lx) IN
    d.to = status /\ d.exc = error /\ Len(d.nodes) = Len(yielded)

\* C15: with `return' or `if' as the binding name of its first statement
\* a parse fails with ReservedKeywordUsed and yields nothing; with
\* `function' or `returns' there it ends as it does with the identifier
\* `a' there, and the first node, if one is yielded, binds that name.
OnlyReturnAndIfAreReserved ==
    \A i \in BindingPlaces(Lex(tokens)) :
        /\ (Started /\ tokens[i].value \in {"return", "if"}) =>
              /\ status = "raised"
              /\ ErrorKind(error) = "ReservedKeywordUsed"
              /\ yielded = <<>>
        /\ (status # "suspended"
                /\ tokens[i].value \in {"function", "returns"}) =>
              /\ SameOutcome([Lex(tokens) EXCEPT ![i] = N("a")])
              /\ yielded # <<>> => Bound(yielded[1], i) = tokens[i].value

ArgumentNamedReturns ==
    /\ status = "exhausted"
    /\ 5 \in BindingPlaces(Lex(tokens))
    /\ tokens[5].value = "returns"
    /\ yielded[1].tag = "FunctionDef"
    /\ yielded[1].arguments[1][2] = "returns"

\* C16: a Declaration node with an initializer comes of a source with the
\* operator `=' between the variable name and the initializer expression.
InitializerFollowsEquals ==
    \A k \in 1..Len(yielded) :
        (yielded[k].tag = "Declaration" /\ yielded[k].value.tag # "None") =>
            info(tokens[At(yielded[k].type.end) + 2]) = <<"OP", "=">>

----------------------------------------------------------------------------
(* Properties of the parser's use of the cursor *)

\* the numbers of unconsumed tokens at which the entries of the trace
\* `entries' that satisfy Test were made, in order
Lefts(entries, Test(_)) ==
    LET selected == SelectSeq(entries, Test) IN
    [i \in 1..Len(selected) |-> selected[i].left]

\* between any two of the times in lefts, and between the last of them and
\* now unless the parse failed, at least one token was consumed
Consuming(lefts) ==
    /\ \A i \in 1..(Len(lefts) - 1) : lefts[i] > lefts[i + 1]
    /\ status # "raised" =>
          \A i \in 1..Len(lefts) : lefts[i] > Unconsumed(Parser)

EveryIterationConsumes ==
    /\ Consuming(Lefts(calls, LAMBDA e : e.fn = "parse_statement"))
    /\ \A loop \in {"body", "_parse_comma_list", "parse_expression"} :
          Consuming(Lefts(usage.loops, LAMBDA e : e.loop = loop))
    /\ Len(yielded) <= Consumed

\* C13: the caller that keeps asking for the next node comes to the end of
\* the sequence or to an error; and every parse_statement that succeeds,
\* every iteration of the body loops of If and FunctionDef, of the
\* comma-list loop and of the call-suffix loop consumes at least one token.
DrivingTerminates ==
    /\ []EveryIterationConsumes
    /\ <>(status \in {"exhausted", "raised"})

EveryLoopIterated ==
    /\ status = "exhausted"
    /\ Len(yielded) >= 2
    /\ \A loop \in {"body", "_parse_comma_list", "parse_expression"} :
          Len(Lefts(usage.loops, LAMBDA e : e.loop = loop)) >= 1
    /\ Len(Lefts(usage.loops, LAMBDA e : e.loop = "body")) >= 2

\* C17: at no time of a parse has the lookahead buffer held more than two
\* tokens.
BufferHoldsAtMostTwo ==
    usage.high <= 2 /\ Len(coming_up_stack) <= usage.high

TwoTokensBuffered ==
    /\ usage.high = 2
    /\ status = "exhausted"
    /\ yielded # <<>>

\* C18: no pop() of a parse found the lookahead buffer empty, so none
\* reached an exhausted producer: an end-of-input failure that reaches the
\* caller is the one coming_up raises.
EveryPopFollowsAPeek ==
    /\ ~usage.unpeeked
    /\ error.type \notin {"StopIteration", "RuntimeError"}
    /\ ErrorKind(error) = "UnexpectedEndOfInput" =>
          error = [type |-> "EOFError", line |-> 23]

EndOfInputAfterPops ==
    /\ status = "raised"
    /\ ErrorKind(error) = "UnexpectedEndOfInput"
    /\ Consumed >= 2
    /\ yielded # <<>>

====
